---- MODULE Spec2Model ----
(***************************************************************************)
(* State-machine model of src/server.js: the Express handlers /signup,     *)
(* /signin, /editprofile, /deleteuser/:email, /users and /verify-password  *)
(* over the PostgreSQL relation `users`.                                   *)
(*                                                                         *)
(* Each request runs in a slot p \in Procs.  A handler advances one store  *)
(* round trip at a time: every `await usersDB.connect/query(...)` and      *)
(* `await client.query(...)` is one action, taken at the moment the        *)
(* statement takes effect in the store, together with the code that        *)
(* follows it up to the next round trip or the response.  The synchronous  *)
(* prefix of a handler (destructuring, field validation) is part of the    *)
(* action of its first round trip.  `await bcrypt.hash/compare(...)`       *)
(* reads and writes nothing shared, so it is part of the action of the     *)
(* round trip it follows: a request is ordered among the others by its     *)
(* statements.  The one step kept apart from its round trip is the         *)
(* response of /editprofile after COMMIT, since other requests may commit  *)
(* between the two.                                                        *)
(*                                                                         *)
(* The store is PostgreSQL at its default isolation level READ COMMITTED:  *)
(* a statement outside a transaction is atomic and durable at once; the    *)
(* UPDATE of an open transaction writes a pending row version and locks    *)
(* the row until COMMIT or ROLLBACK; SELECT sees committed rows only;      *)
(* UPDATE and DELETE of a row locked by another transaction wait.  Any     *)
(* awaited call may reject (a thrown error); a rejected statement has no   *)
(* effect on the store, and a session whose ROLLBACK is rejected is ended  *)
(* by the server, which aborts its transaction.                            *)
(***************************************************************************)
EXTENDS Integers, Sequences, FiniteSets, TLC

\* ---------------------------------------------------------------- bounds
NProc == 2
MaxId == 2
NSalt == 1

Procs == 1 .. NProc
Salts == 1 .. NSalt

\* Request field values.  "" stands for a field that is missing or empty
\* (both are falsy in JavaScript).  Passwords are sequences of characters so
\* that String.prototype.trim is computed, not assumed.
Emails == {"e1", "e2"}
P1 == <<"u1", "b1", "a1">>
P2 == <<"u2", "b2", "a2">>
BadProfiles == { <<"", "b1", "a1">>, <<"u1", "", "a1">>, <<"u1", "b1", "">> }

Body(op, e, pw, prof) ==
  [op |-> op, email |-> e, username |-> prof[1], password |-> pw,
   bio |-> prof[2], avatar |-> prof[3]]

\* the request bodies each route is driven with: the well-formed ones, and
\* one body for each way of leaving a required field out
SignupBodies ==
  {Body("signup", e, pw, P1) : e \in Emails, pw \in {<<"p">>}}
    \cup {Body("signup", "", <<"p">>, P1), Body("signup", "e1", <<>>, P1)}
    \cup {Body("signup", "e1", <<"p">>, prof) : prof \in BadProfiles}
EditBodies ==
  {Body("editprofile", "e1", pw, P2) : pw \in {<<>>, <<" ">>, <<"q">>}}
    \cup {Body("editprofile", e, <<>>, P1) : e \in Emails}
    \cup {Body("editprofile", "", <<"q">>, P2)}
    \cup {Body("editprofile", "e1", <<"q">>, prof) : prof \in BadProfiles}
LoginBodies(op) ==
  {Body(op, "e1", pw, <<"", "", "">>) : pw \in {<<"p">>, <<"q">>}}
    \cup {Body(op, "e2", <<"p">>, <<"", "", "">>)}
    \cup {Body(op, "", <<"p">>, <<"", "", "">>), Body(op, "e1", <<>>, <<"", "", "">>)}

\* ------------------------------------------------------- pure functions
\* a test of a field that accepts every value
FalsyNever(v) == FALSE

\* JavaScript `!v` for a string-or-missing request field
Falsy(v) == v = ""

\* JavaScript `!password` for a password (a string, "" when missing)
FalsyPw(pw) == pw = <<>>

\* String.prototype.trim: drops leading and trailing white space
RECURSIVE TrimLeft(_)
TrimLeft(s) ==
  IF s # <<>> /\ Head(s) = " " THEN TrimLeft(Tail(s)) ELSE s

RECURSIVE TrimRight(_)
TrimRight(s) ==
  IF s # <<>> /\ s[Len(s)] = " " THEN TrimRight(SubSeq(s, 1, Len(s) - 1)) ELSE s

Trim(s) == TrimRight(TrimLeft(s))

\* bcrypt.hash(password, 10) with the salt it drew: version and cost, the
\* salt, and the digest, which is determined by (salt, password) and
\* determines the password for a given salt.
Hash(pw, salt) == <<"$2b$10$", salt, pw>>

\* a comparison whose result is inverted
CompareInverted(pw, h) == Hash(pw, h[2]) # h

\* bcrypt.compare(password, hash): re-hash with the salt stored in the hash
Compare(pw, h) == Hash(pw, h[2]) = h

\* the value of a property set to `undefined`
Undefined == <<"undefined">>

\* a password property set to null, which JSON.stringify keeps
StripPasswordNull(u) == [u EXCEPT !.password = <<"null">>]

\* { ...user, password: undefined }
StripPassword(u) == [u EXCEPT !.password = Undefined]

\* res.json(obj): JSON.stringify omits the properties whose value is
\* undefined.  password is the only property the handlers ever assign
\* undefined to; the other values are numbers and strings.
ToJSON(o) ==
  [k \in {k \in DOMAIN o : k # "password" \/ o[k] # Undefined} |-> o[k]]

\* err.message of an error thrown by the store client, and by bcrypt
StoreDiag == "connect ECONNREFUSED 10.0.0.5:5432"
UniqueDiag == "duplicate key value violates unique constraint \"users_email_key\""
HashDiag == "data and salt arguments required"

\* ---------------------------------------------------------------- state
VARIABLES
  users,     \* committed rows of the relation users
  nextId,    \* the sequence behind `id SERIAL`
  pc,        \* per request slot: the await the handler is suspended at
  req,       \* per request slot: the route and the request fields
  rows,      \* per request slot: result.rows / userResult.rows
  hashed,    \* per request slot: hashedPassword
  pending,   \* per request slot: the row version its open transaction wrote
  intx,      \* per request slot: its client has an open transaction
  held,      \* per request slot: it holds a pool client not yet released
  out,       \* the responses the last step sent: <<>> or one [slot, req, res]
  reg,       \* history, per email: what the signup that made its row
             \* supplied, while no new password was stored and the row was
             \* not deleted, and whether an /editprofile has committed since
  gone       \* history: the emails whose row a /deleteuser removed and for
             \* which no /signup has succeeded since

vars == <<users, nextId, pc, req, rows, hashed, pending, intx, held, out, reg, gone>>

NoReq == Body("none", "", <<>>, <<"", "", "">>)
NoHash == <<>>

Init ==
  /\ users = {}
  /\ nextId = 1
  /\ pc = [p \in Procs |-> "idle"]
  /\ req = [p \in Procs |-> NoReq]
  /\ rows = [p \in Procs |-> {}]
  /\ hashed = [p \in Procs |-> NoHash]
  /\ pending = [p \in Procs |-> {}]
  /\ intx = [p \in Procs |-> FALSE]
  /\ held = [p \in Procs |-> FALSE]
  /\ out = <<>>
  /\ reg = [e \in Emails |-> {}]
  /\ gone = {}

\* ------------------------------------------------------------- the store
\* SELECT * FROM users WHERE email=$1 (committed rows only)
SelectByEmail(e) == {r \in users : r.email = e}

\* the row ids locked by the open transactions of the slots other than p
LockedByOther(p) == {r.id : r \in UNION {pending[q] : q \in Procs \ {p}}}

\* may statement of slot p that writes the rows of email e proceed?
CanWrite(p, e) == \A r \in SelectByEmail(e) : r.id \notin LockedByOther(p)

\* a table whose email column is not declared UNIQUE
UniqueOkNoConstraint(e) == TRUE

\* email TEXT UNIQUE NOT NULL: may a row with this email be inserted?
UniqueOk(e) == SelectByEmail(e) = {}

\* an existence test that is off by one
ExistsOffByOne(rs) == Cardinality(rs) > 1

\* `exists.rows.length > 0`
Exists(rs) == Cardinality(rs) > 0

\* an INSERT that gives every row the same id
NewRowSameId(id, b, h) ==
  [id |-> 1, username |-> b.username, email |-> b.email, password |-> h,
   bio |-> b.bio, avatar |-> b.avatar]

\* id SERIAL and the INSERT of /signup
NewRow(id, b, h) ==
  [id |-> id, username |-> b.username, email |-> b.email, password |-> h,
   bio |-> b.bio, avatar |-> b.avatar]

\* a test that takes the branch of the password every time
HasPasswordAlways(pw) == TRUE

\* `password && password.trim() !== ""`
HasPassword(pw) == ~FalsyPw(pw) /\ Trim(pw) # <<>>

\* an UPDATE that leaves the password column out in both branches
UpdateRowNoPassword(r, b, h) ==
  [r EXCEPT !.username = b.username, !.bio = b.bio, !.avatar = b.avatar]

\* the SET clause of the two UPDATE statements of /editprofile
UpdateRow(r, b, h) ==
  IF HasPassword(b.password)
  THEN [r EXCEPT !.username = b.username, !.password = h, !.bio = b.bio,
                 !.avatar = b.avatar]
  ELSE [r EXCEPT !.username = b.username, !.bio = b.bio, !.avatar = b.avatar]

\* a test of the row count that never sees zero
RowCountZeroNever(rs) == FALSE

\* `userResult.rowCount === 0`
RowCountZero(rs) == Cardinality(rs) = 0

\* RETURNING id, email, username, bio, avatar
Returning(r) ==
  [id |-> r.id, email |-> r.email, username |-> r.username, bio |-> r.bio,
   avatar |-> r.avatar]

\* ------------------------------------------------------------- responses
Json(status, body) == [status |-> status, body |-> body]

\* a slot free to take a request
Free(p) == pc[p] = "idle"

\* the handler of slot p sends a response and returns: the slot is free
\* again and the handler's locals are gone
Reply(p, b, status, body) ==
  /\ out' = <<[slot |-> p, req |-> b, res |-> Json(status, body)]>>
  /\ pc' = [pc EXCEPT ![p] = "idle"]
  /\ req' = [req EXCEPT ![p] = NoReq]
  /\ rows' = [rows EXCEPT ![p] = {}]
  /\ hashed' = [hashed EXCEPT ![p] = NoHash]

\* the handler of slot p suspends at its next await
Await(p, b, at, rs, h) ==
  /\ out' = <<>>
  /\ pc' = [pc EXCEPT ![p] = at]
  /\ req' = [req EXCEPT ![p] = b]
  /\ rows' = [rows EXCEPT ![p] = rs]
  /\ hashed' = [hashed EXCEPT ![p] = h]

\* ---------------------------------------------------------------- signup
\* the bound on the id sequence: an INSERT is started only while an id
\* within the bound is left for it
IdsLeft == nextId + Cardinality({q \in Procs : pc[q] = "su_insert"}) <= MaxId

\* POST /signup up to its INSERT: validation, the SELECT by email, then
\* await bcrypt.hash(password, 10)
Signup(p, b) ==
  /\ Free(p)
  /\ UNCHANGED <<reg, gone>>
  /\ UNCHANGED <<users, nextId, pending, intx, held>>
  /\ IF Falsy(b.username) \/ Falsy(b.email) \/ FalsyPw(b.password)
          \/ Falsy(b.bio) \/ Falsy(b.avatar)
     THEN Reply(p, b, 400, [message |-> "Please fill all fields"])
     ELSE \/ Reply(p, b, 500, [message |-> "Error registering user", error |-> StoreDiag])
          \/ IF Exists(SelectByEmail(b.email))
             THEN Reply(p, b, 400, [message |-> "User already exists"])
             ELSE \/ Reply(p, b, 500, [message |-> "Error registering user",
                                        error |-> HashDiag])
                  \/ /\ IdsLeft
                     /\ \E s \in Salts :
                          Await(p, b, "su_insert", {}, Hash(b.password, s))

\* await usersDB.query("INSERT INTO users ...") and the success response.
\* The id default draws from the sequence before the unique index is
\* checked, so a rejected insert uses up an id.
SuInsert(p) ==
  /\ pc[p] = "su_insert"
  /\ UNCHANGED <<pending, intx, held>>
  /\ \/ /\ Reply(p, req[p], 500, [message |-> "Error registering user", error |-> StoreDiag])
        /\ UNCHANGED <<users, nextId, reg, gone>>
     \/ /\ ~UniqueOk(req[p].email)
        /\ nextId' = nextId + 1
        /\ UNCHANGED <<users, reg, gone>>
        /\ Reply(p, req[p], 500, [message |-> "Error registering user", error |-> UniqueDiag])
     \/ /\ UniqueOk(req[p].email)
        /\ nextId' = nextId + 1
        /\ users' = users \cup {NewRow(nextId, req[p], hashed[p])}
        /\ reg' = [reg EXCEPT ![req[p].email] =
             {[password |-> req[p].password, username |-> req[p].username,
               bio |-> req[p].bio, avatar |-> req[p].avatar, edited |-> FALSE]}]
        /\ gone' = gone \ {req[p].email}
        /\ Reply(p, req[p], 200, [message |-> "Registered successfully"])

\* ---------------------------------------------------------------- signin
\* a sign-in that tells a missing account apart, as /verify-password does
SigninNoUserAs404 == Json(404, [message |-> "User not found"])

\* the response when the SELECT finds no row
SigninNoUser == Json(401, [message |-> "Invalid email or password"])

\* the response when bcrypt.compare says no
SigninBadPassword == Json(401, [message |-> "Invalid email or password"])

\* POST /signin: validation, the SELECT by email, then
\* await bcrypt.compare(password, user.password) and the response
Signin(p, b) ==
  /\ Free(p)
  /\ UNCHANGED <<reg, gone>>
  /\ UNCHANGED <<users, nextId, pending, intx, held>>
  /\ IF Falsy(b.email) \/ FalsyPw(b.password)
     THEN Reply(p, b, 400, [message |-> "Please fill all fields"])
     ELSE \/ Reply(p, b, 500, [message |-> "Error logging in", error |-> StoreDiag])
          \/ IF Cardinality(SelectByEmail(b.email)) = 0
             THEN Reply(p, b, SigninNoUser.status, SigninNoUser.body)
             ELSE \E user \in SelectByEmail(b.email) :
                    \/ Reply(p, b, 500, [message |-> "Error logging in",
                                          error |-> HashDiag])
                    \/ IF ~Compare(b.password, user.password)
                       THEN Reply(p, b, SigninBadPassword.status, SigninBadPassword.body)
                       ELSE Reply(p, b, 200, [message |-> "Login successful",
                                              user |-> ToJSON(StripPassword(user))])

\* ----------------------------------------------------------- editprofile
\* PUT /editprofile up to the end of its first await: validation, then
\* usersDB.connect()
EditProfile(p, b) ==
  /\ Free(p)
  /\ UNCHANGED <<reg, gone>>
  /\ UNCHANGED <<users, nextId, pending, intx>>
  /\ IF Falsy(b.email) \/ Falsy(b.username) \/ Falsy(b.bio) \/ Falsy(b.avatar)
     THEN /\ Reply(p, b, 400, [message |-> "Missing required fields"])
          /\ UNCHANGED held
     ELSE \/ /\ Reply(p, b, 500, [message |-> "Error updating profile"])
             /\ UNCHANGED held
          \/ /\ Await(p, b, "ep_begin", {}, NoHash)
             /\ held' = [held EXCEPT ![p] = TRUE]

\* await client.query("BEGIN"), then the test of the password and, when
\* there is one, await bcrypt.hash(password, 10)
EpBegin(p) ==
  /\ pc[p] = "ep_begin"
  /\ UNCHANGED <<reg, gone>>
  /\ UNCHANGED <<users, nextId, pending, held>>
  /\ \/ /\ Await(p, req[p], "ep_catch", {}, NoHash)
        /\ UNCHANGED intx
     \/ /\ intx' = [intx EXCEPT ![p] = TRUE]
        /\ IF HasPassword(req[p].password)
           THEN \/ Await(p, req[p], "ep_catch", {}, NoHash)
                \/ \E s \in Salts :
                     Await(p, req[p], "ep_update", {}, Hash(req[p].password, s))
           ELSE Await(p, req[p], "ep_update", {}, NoHash)

\* an UPDATE that inserts the row when no row matches the email
EpUpdateUpsert(p) ==
  /\ pc[p] = "ep_update"
  /\ UNCHANGED <<reg, gone>>
  /\ UNCHANGED <<users, nextId, intx, held>>
  /\ \/ /\ Await(p, req[p], "ep_catch", {}, hashed[p])
        /\ UNCHANGED pending
     \/ /\ CanWrite(p, req[p].email)
        /\ LET written ==
                 IF SelectByEmail(req[p].email) = {}
                 THEN {NewRow(nextId, req[p], Hash(req[p].password, 1))}
                 ELSE {UpdateRow(r, req[p], hashed[p]) : r \in SelectByEmail(req[p].email)}
           IN /\ pending' = [pending EXCEPT ![p] = written]
              /\ Await(p, req[p], "ep_commit", {Returning(r) : r \in written},
                       hashed[p])

\* await client.query(updateQuery, values): the UPDATE waits for the lock
\* of the row, writes the new row version and keeps the lock
EpUpdate(p) ==
  /\ pc[p] = "ep_update"
  /\ UNCHANGED <<reg, gone>>
  /\ UNCHANGED <<users, nextId, intx, held>>
  /\ \/ /\ Await(p, req[p], "ep_catch", {}, hashed[p])
        /\ UNCHANGED pending
     \/ /\ CanWrite(p, req[p].email)
        /\ pending' = [pending EXCEPT ![p] =
             {UpdateRow(r, req[p], hashed[p]) : r \in SelectByEmail(req[p].email)}]
        /\ IF RowCountZero(SelectByEmail(req[p].email))
           THEN Await(p, req[p], "ep_rollback", {}, hashed[p])
           ELSE Await(p, req[p], "ep_commit",
                      {Returning(UpdateRow(r, req[p], hashed[p])) :
                         r \in SelectByEmail(req[p].email)}, hashed[p])

\* a not-found exit that returns without releasing the client
EpRollbackNoRelease(p) ==
  /\ pc[p] = "ep_rollback"
  /\ UNCHANGED <<reg, gone>>
  /\ UNCHANGED <<users, nextId>>
  /\ \/ /\ Await(p, req[p], "ep_catch", rows[p], hashed[p])
        /\ UNCHANGED <<pending, intx, held>>
     \/ /\ pending' = [pending EXCEPT ![p] = {}]
        /\ intx' = [intx EXCEPT ![p] = FALSE]
        /\ UNCHANGED held
        /\ Reply(p, req[p], 404, [message |-> "User not found"])

\* rowCount === 0: await client.query("ROLLBACK"), the 404, client.release()
EpRollback(p) ==
  /\ pc[p] = "ep_rollback"
  /\ UNCHANGED <<reg, gone>>
  /\ UNCHANGED <<users, nextId>>
  /\ \/ /\ Await(p, req[p], "ep_catch", rows[p], hashed[p])
        /\ UNCHANGED <<pending, intx, held>>
     \/ /\ pending' = [pending EXCEPT ![p] = {}]
        /\ intx' = [intx EXCEPT ![p] = FALSE]
        /\ held' = [held EXCEPT ![p] = FALSE]
        /\ Reply(p, req[p], 404, [message |-> "User not found"])

\* a COMMIT step that already sends the success response, which the
\* handler then sends again
EpCommitAnswers(p) ==
  /\ pc[p] = "ep_commit"
  /\ UNCHANGED <<nextId, held>>
  /\ \/ /\ Await(p, req[p], "ep_catch", rows[p], hashed[p])
        /\ UNCHANGED <<users, pending, intx, reg, gone>>
     \/ /\ users' = {r \in users : r.id \notin {w.id : w \in pending[p]}} \cup pending[p]
        /\ reg' = [reg EXCEPT ![req[p].email] =
             IF HasPassword(req[p].password) THEN {}
             ELSE {[g EXCEPT !.edited = TRUE] : g \in @}]
        /\ UNCHANGED gone
        /\ pending' = [pending EXCEPT ![p] = {}]
        /\ intx' = [intx EXCEPT ![p] = FALSE]
        /\ out' = <<[slot |-> p, req |-> req[p],
                     res |-> Json(200, [message |-> "Profile updated successfully"])]>>
        /\ pc' = [pc EXCEPT ![p] = "ep_respond"]
        /\ UNCHANGED <<req, rows, hashed>>

\* await client.query("COMMIT"): the pending row version replaces the row
EpCommit(p) ==
  /\ pc[p] = "ep_commit"
  /\ UNCHANGED <<nextId, held>>
  /\ \/ /\ Await(p, req[p], "ep_catch", rows[p], hashed[p])
        /\ UNCHANGED <<users, pending, intx, reg, gone>>
     \/ /\ users' = {r \in users : r.id \notin {w.id : w \in pending[p]}} \cup pending[p]
        /\ reg' = [reg EXCEPT ![req[p].email] =
             IF HasPassword(req[p].password) THEN {}
             ELSE {[g EXCEPT !.edited = TRUE] : g \in @}]
        /\ UNCHANGED gone
        /\ pending' = [pending EXCEPT ![p] = {}]
        /\ intx' = [intx EXCEPT ![p] = FALSE]
        /\ Await(p, req[p], "ep_respond", rows[p], hashed[p])

\* a response that reads the row again after COMMIT
EpRespondRereads(p) ==
  /\ pc[p] = "ep_respond"
  /\ UNCHANGED <<reg, gone>>
  /\ UNCHANGED <<users, nextId, pending, intx>>
  /\ held' = [held EXCEPT ![p] = FALSE]
  /\ \E u \in {Returning(r) : r \in SelectByEmail(req[p].email)} :
       Reply(p, req[p], 200, [message |-> "Profile updated successfully", user |-> ToJSON(u)])

\* after COMMIT: res.json({message, user: userResult.rows[0]}), then the
\* finally block's client.release()
EpRespond(p) ==
  /\ pc[p] = "ep_respond"
  /\ UNCHANGED <<reg, gone>>
  /\ UNCHANGED <<users, nextId, pending, intx>>
  /\ held' = [held EXCEPT ![p] = FALSE]
  /\ \E u \in rows[p] :
       Reply(p, req[p], 200, [message |-> "Profile updated successfully", user |-> ToJSON(u)])

\* a catch block that sends COMMIT where ROLLBACK is meant
EpCatchCommits(p) ==
  /\ pc[p] = "ep_catch"
  /\ UNCHANGED <<nextId, reg, gone>>
  /\ users' = {r \in users : r.id \notin {w.id : w \in pending[p]}} \cup pending[p]
  /\ pending' = [pending EXCEPT ![p] = {}]
  /\ intx' = [intx EXCEPT ![p] = FALSE]
  /\ held' = [held EXCEPT ![p] = FALSE]
  /\ Reply(p, req[p], 500, [message |-> "Error updating profile"])

\* the inner catch: await client.query("ROLLBACK"); throw err; the finally
\* block's client.release(); the outer catch's 500.  When the ROLLBACK is
\* itself rejected its error is the one thrown on, and the server aborts
\* the transaction as it ends the session.
EpCatch(p) ==
  /\ pc[p] = "ep_catch"
  /\ UNCHANGED <<reg, gone>>
  /\ UNCHANGED <<users, nextId>>
  /\ pending' = [pending EXCEPT ![p] = {}]
  /\ intx' = [intx EXCEPT ![p] = FALSE]
  /\ held' = [held EXCEPT ![p] = FALSE]
  /\ Reply(p, req[p], 500, [message |-> "Error updating profile"])

\* ------------------------------------------------------------ deleteuser
\* `${email} has been deleted`
DeletedMessage(e) == IF e = "e1" THEN "e1 has been deleted" ELSE "e2 has been deleted"

\* a DELETE statement without its WHERE clause
DeleteUserNoWhere(p, e) ==
  /\ Free(p)
  /\ UNCHANGED <<nextId, pending, intx, held>>
  /\ \/ /\ Reply(p, Body("deleteuser", e, <<>>, <<"", "", "">>), 500,
                 [message |-> "Error deleting user", error |-> StoreDiag])
        /\ UNCHANGED <<users, reg, gone>>
     \/ /\ \A e2 \in Emails : CanWrite(p, e2)
        /\ users' = {}
        /\ reg' = [e2 \in Emails |-> {}]
        /\ gone' = gone \cup {r.email : r \in users}
        /\ IF Cardinality(users) > 0
           THEN Reply(p, Body("deleteuser", e, <<>>, <<"", "", "">>), 200,
                      [message |-> DeletedMessage(e)])
           ELSE Reply(p, Body("deleteuser", e, <<>>, <<"", "", "">>), 404,
                      [message |-> "User not found"])

\* DELETE /deleteuser/:email: the path parameter is never empty.  The
\* DELETE waits while another transaction holds the row's lock.
DeleteUser(p, e) ==
  /\ Free(p)
  /\ UNCHANGED <<nextId, pending, intx, held>>
  /\ \/ /\ Reply(p, Body("deleteuser", e, <<>>, <<"", "", "">>), 500,
                 [message |-> "Error deleting user", error |-> StoreDiag])
        /\ UNCHANGED <<users, reg, gone>>
     \/ /\ CanWrite(p, e)
        /\ users' = users \ SelectByEmail(e)
        /\ reg' = [reg EXCEPT ![e] = IF SelectByEmail(e) = {} THEN @ ELSE {}]
        /\ gone' = IF SelectByEmail(e) = {} THEN gone ELSE gone \cup {e}
        /\ IF Cardinality(SelectByEmail(e)) > 0
           THEN Reply(p, Body("deleteuser", e, <<>>, <<"", "", "">>), 200,
                      [message |-> DeletedMessage(e)])
           ELSE Reply(p, Body("deleteuser", e, <<>>, <<"", "", "">>), 404,
                      [message |-> "User not found"])

\* ----------------------------------------------------------------- users
\* GET /users: the array is modelled as the set of its elements (the
\* statement has no ORDER BY, and ids are distinct)
ListUsers(p) ==
  /\ Free(p)
  /\ UNCHANGED <<reg, gone>>
  /\ UNCHANGED <<users, nextId, pending, intx, held>>
  /\ \/ Reply(p, Body("users", "", <<>>, <<"", "", "">>), 500,
              [message |-> "Error fetching users", error |-> StoreDiag])
     \/ Reply(p, Body("users", "", <<>>, <<"", "", "">>), 200,
              {ToJSON(StripPassword(u)) : u \in users})

\* ------------------------------------------------------- verify-password
\* a verification that answers a missing account as a wrong password
VerifyPasswordHidesMissing(p, b) ==
  /\ Free(p)
  /\ UNCHANGED <<reg, gone>>
  /\ UNCHANGED <<users, nextId, pending, intx, held>>
  /\ IF Falsy(b.email) \/ FalsyPw(b.password)
     THEN Reply(p, b, 400, [message |-> "Missing data"])
     ELSE \/ Reply(p, b, 500, [message |-> "Server error"])
          \/ IF Cardinality(SelectByEmail(b.email)) = 0
             THEN Reply(p, b, 401, [message |-> "Wrong password"])
             ELSE \E row \in {[password |-> r.password] : r \in SelectByEmail(b.email)} :
                    \/ Reply(p, b, 500, [message |-> "Server error"])
                    \/ IF ~Compare(b.password, row.password)
                       THEN Reply(p, b, 401, [message |-> "Wrong password"])
                       ELSE Reply(p, b, 200, [message |-> "Password verified"])

\* POST /verify-password: validation, SELECT password FROM users WHERE
\* email=$1, then await bcrypt.compare(password, hashedPassword) and the
\* response
VerifyPassword(p, b) ==
  /\ Free(p)
  /\ UNCHANGED <<reg, gone>>
  /\ UNCHANGED <<users, nextId, pending, intx, held>>
  /\ IF Falsy(b.email) \/ FalsyPw(b.password)
     THEN Reply(p, b, 400, [message |-> "Missing data"])
     ELSE \/ Reply(p, b, 500, [message |-> "Server error"])
          \/ IF Cardinality(SelectByEmail(b.email)) = 0
             THEN Reply(p, b, 404, [message |-> "User not found"])
             ELSE \E row \in {[password |-> r.password] : r \in SelectByEmail(b.email)} :
                    \/ Reply(p, b, 500, [message |-> "Server error"])
                    \/ IF ~Compare(b.password, row.password)
                       THEN Reply(p, b, 401, [message |-> "Wrong password"])
                       ELSE Reply(p, b, 200, [message |-> "Password verified"])

\* ------------------------------------------------------------------ next
Next ==
  \/ \E p \in Procs, b \in SignupBodies : Signup(p, b)
  \/ \E p \in Procs : SuInsert(p)
  \/ \E p \in Procs, b \in LoginBodies("signin") : Signin(p, b)
  \/ \E p \in Procs, b \in EditBodies : EditProfile(p, b)
  \/ \E p \in Procs : EpBegin(p)
  \/ \E p \in Procs : EpUpdate(p)
  \/ \E p \in Procs : EpRollback(p)
  \/ \E p \in Procs : EpCommit(p)
  \/ \E p \in Procs : EpRespond(p)
  \/ \E p \in Procs : EpCatch(p)
  \/ \E p \in Procs, e \in Emails : DeleteUser(p, e)
  \/ \E p \in Procs : ListUsers(p)
  \/ \E p \in Procs, b \in LoginBodies("verify-password") : VerifyPassword(p, b)

Spec == Init /\ [][Next]_vars

\* ================================================================ claims
\* the response the last step sent, when it sent one for route op
Replied(op) == out # <<>> /\ out[1].req.op = op
Res == out[1].res
Sent == out[1].req

\* the body of a well-formed /signup request
ValidSignup(b) ==
  ~(Falsy(b.username) \/ Falsy(b.email) \/ FalsyPw(b.password)
      \/ Falsy(b.bio) \/ Falsy(b.avatar))

\* the response says that an awaited call was rejected for a reason other
\* than the rows of the store: the store could not be reached, bcrypt threw
Outage(res) ==
  /\ res.status = 500
  /\ "error" \in DOMAIN res.body => res.body.error \in {StoreDiag, HashDiag}

UserExists == Json(400, [message |-> "User already exists"])
Registered == Json(200, [message |-> "Registered successfully"])

\* A step that sends nothing suspends the handler of the one slot whose pc
\* it changes; a step that sends a response is the last step of the
\* request of out'[1].slot.
\* this step is taken by the request of slot p, for route op
StepOf(p, op) ==
  IF out' = <<>> THEN pc'[p] # pc[p] /\ req'[p].op = op
  ELSE out'[1].slot = p /\ out'[1].req.op = op

\* the body of the request that takes this step, in slot p
BodyOf(p) == IF out' = <<>> THEN req'[p] ELSE out'[1].req

UniqueEmail == \A r1, r2 \in users : r1.email = r2.email => r1 = r2

C1Step ==
  /\ UniqueEmail'
  /\ \A p \in Procs :
       StepOf(p, "signup") =>
         /\ users \subseteq users'
         /\ SelectByEmail(BodyOf(p).email) # {} => users' = users

\* C1: in every reachable state of the store there is at most one row per
\* email, under every interleaving of the six routes; and no step of a
\* signup removes or replaces a row: a signup for an email that has a row
\* leaves the relation as it is.
C1_OneRowPerEmail == [][C1Step]_vars

\* C1 witness: a signup has just been refused for an email that has a row,
\* with two rows in the store.
C1_Witness ==
  /\ Replied("signup") /\ Res = UserExists
  /\ Cardinality(users) = 2
  /\ SelectByEmail(Sent.email) # {}

\* C2: a well-formed signup that does not succeed because its email has a
\* row, whether it finds the row by its SELECT or its INSERT is refused by
\* the unique constraint (the case of two concurrent signups for one
\* email), gets the conflict response 400 "User already exists".
C2_LoserGetsConflict ==
  (/\ Replied("signup") /\ ValidSignup(Sent)
   /\ Res # Registered /\ ~Outage(Res))
     => Res = UserExists

C3Step ==
  \A p \in Procs :
    (StepOf(p, "signup") /\ pc[p] = "idle" /\ ValidSignup(BodyOf(p))
       /\ SelectByEmail(BodyOf(p).email) # {})
      => /\ out' # <<>>
         /\ out'[1].res = UserExists \/ Outage(out'[1].res)
         /\ users' = users /\ nextId' = nextId
         /\ Cardinality({r \in users' : r.email = BodyOf(p).email}) = 1

\* C3: a well-formed signup that arrives when its email has a row is
\* answered at once, with 400 "User already exists" (with the internal
\* error when its SELECT is rejected), and creates no row and changes no
\* row: the store holds the same single row for that email afterwards.
C3_DuplicateSignupRefused == [][C3Step]_vars

\* C3 witness: a duplicate signup has just been refused with no other
\* request in flight, and the row of its email is there.
C3_Witness ==
  /\ Replied("signup") /\ Res = UserExists /\ ValidSignup(Sent)
  /\ \A q \in Procs : pc[q] = "idle"
  /\ Cardinality(SelectByEmail(Sent.email)) = 1

\* the body of a well-formed /signin or /verify-password request
ValidLogin(b) == ~(Falsy(b.email) \/ FalsyPw(b.password))

\* the registration on record for the email and password of the request
Registration(b) ==
  IF b.email \in Emails THEN {g \in reg[b.email] : g.password = b.password} ELSE {}

\* C4 as claimed: when signup(email, password, ...) has succeeded and since
\* then no editprofile has stored a new password for that email and no
\* deleteuser has removed its row, signin(email, password) answers 200
\* with a user that carries the registered username, email, bio and avatar
\* and has no password field.
C4_SigninAfterSignup_Claimed ==
  (Replied("signin") /\ ~Outage(Res)) =>
    \A g \in Registration(Sent) :
      /\ Res.status = 200
      /\ "password" \notin DOMAIN Res.body.user
      /\ Res.body.user.email = Sent.email
      /\ Res.body.user.username = g.username
      /\ Res.body.user.bio = g.bio
      /\ Res.body.user.avatar = g.avatar

\* C4 as amended: under the same conditions signin(email, password) answers
\* 200 with a user that carries the registered email and no password
\* field, and the registered username, bio and avatar unless an
\* editprofile for that email has committed since the signup.
C4_SigninAfterSignup ==
  (Replied("signin") /\ ~Outage(Res)) =>
    \A g \in Registration(Sent) :
      /\ Res.status = 200
      /\ "password" \notin DOMAIN Res.body.user
      /\ Res.body.user.email = Sent.email
      /\ ~g.edited =>
           /\ Res.body.user.username = g.username
           /\ Res.body.user.bio = g.bio
           /\ Res.body.user.avatar = g.avatar

\* C4 witness: a signin with the registered email and password has just
\* succeeded and returned the registered username.
C4_Witness ==
  /\ Replied("signin") /\ Res.status = 200
  /\ \E g \in Registration(Sent) :
       ~g.edited /\ Res.body.user.username = g.username

\* C5: no response shows a password: the elements of the /users array, the
\* user of a successful /signin and the user of a successful /editprofile
\* have no password field, whatever rows the store holds, and every other
\* response is a message, with the error text when the handler adds it.
C5_NoPasswordInResponses ==
  out # <<>> =>
    IF Sent.op = "users" /\ Res.status = 200
    THEN \A u \in Res.body : "password" \notin DOMAIN u
    ELSE /\ DOMAIN Res.body \subseteq {"message", "error", "user"}
         /\ "user" \in DOMAIN Res.body =>
              /\ Sent.op \in {"signin", "editprofile"} /\ Res.status = 200
              /\ "password" \notin DOMAIN Res.body.user

\* C5 witness: /users has just listed a store of two rows.
C5_Witness ==
  /\ Replied("users") /\ Res.status = 200
  /\ Cardinality(users) = 2 /\ Cardinality(Res.body) = 2

\* the password the stored hash of row r was made from
PasswordOf(r) == r.password[3]

\* C6: a well-formed signin for an email without a row and a well-formed
\* signin with a password that is not the one of the row get the same
\* response, 401 "Invalid email or password".
C6_SigninIndistinguishable ==
  (/\ Replied("signin") /\ ValidLogin(Sent) /\ ~Outage(Res)
   /\ \A r \in SelectByEmail(Sent.email) : PasswordOf(r) # Sent.password)
     => Res = Json(401, [message |-> "Invalid email or password"])

\* C6 witness: a signin with a wrong password for an email that has a row
\* has just been refused.
C6_Witness ==
  /\ Replied("signin") /\ Res.status = 401
  /\ \E r \in SelectByEmail(Sent.email) : PasswordOf(r) # Sent.password

\* C6 witness of the other case: a signin for an email that has no row has
\* just been refused while the store holds another row.
C6_WitnessNoRow ==
  /\ Replied("signin") /\ Res.status = 401
  /\ SelectByEmail(Sent.email) = {} /\ users # {}

\* the step is the COMMIT of the /editprofile request of slot p
Commits(p) == pc[p] = "ep_commit" /\ pc'[p] = "ep_respond"

\* the row that has the id of row r after the step
After(r) == {r2 \in users' : r2.id = r.id}

\* every password a request may carry
AllPasswords ==
  {b.password : b \in SignupBodies \cup EditBodies \cup LoginBodies("signin")}

C7Step ==
  /\ \A p \in Procs :
       Commits(p) =>
         /\ SelectByEmail(req[p].email) # {}
         /\ \A r \in SelectByEmail(req[p].email) :
              /\ After(r) # {}
              /\ \A r2 \in After(r) :
                   /\ r2.username = req[p].username
                   /\ r2.bio = req[p].bio
                   /\ r2.avatar = req[p].avatar
                   /\ FalsyPw(req[p].password) =>
                        /\ r2.password = r.password
                        /\ \A pw \in AllPasswords :
                             Compare(pw, r.password) => Compare(pw, r2.password)
  /\ \A r \in users : \A r2 \in After(r) :
       r2.password # r.password =>
         \E p \in Procs :
           Commits(p) /\ req[p].email = r.email /\ ~FalsyPw(req[p].password)

\* C7: the COMMIT of an editprofile sets the username, bio and avatar of
\* the row of its email to the supplied values and, when its password is
\* omitted or empty, leaves the stored hash as it is, so that every
\* password that signed in before still does; no step changes the password
\* column of a row other than the COMMIT of an editprofile for its email
\* that supplied a non-empty password.
C7_EditKeepsHashWithoutPassword == [][C7Step]_vars

\* C7 witness: an editprofile without a password has committed a new
\* username on a row whose hash is still the one of the signup password.
C7_Witness ==
  \E p \in Procs :
    /\ pc[p] = "ep_respond" /\ FalsyPw(req[p].password)
    /\ \E r \in SelectByEmail(req[p].email), g \in reg[req[p].email] :
         /\ r.username = req[p].username /\ r.username # g.username
         /\ Compare(g.password, r.password)

\* what /signin answers for the rows of the store, when nothing is rejected
SigninFaithful ==
  (Replied("signin") /\ ValidLogin(Sent) /\ ~Outage(Res)) =>
    /\ Res.status \in {200, 401}
    /\ Res.status = 200 <=>
         \E r \in SelectByEmail(Sent.email) : PasswordOf(r) = Sent.password

C8StepClaimed ==
  /\ SigninFaithful'
  /\ \A p \in Procs :
       (Commits(p) /\ ~FalsyPw(req[p].password)) =>
         \A r \in SelectByEmail(req[p].email) : \A r2 \in After(r) :
           PasswordOf(r2) = req[p].password

\* C8 as claimed: once an editprofile with a non-empty password p2 has
\* committed, the row of its email holds a hash of p2, and a signin for
\* that row answers 200 exactly for the password the hash was made from:
\* 200 for p2, and 401 for the former password p1 # p2.
C8_NewPasswordReplacesOld_Claimed == [][C8StepClaimed]_vars

C8Step ==
  /\ SigninFaithful'
  /\ \A p \in Procs :
       (Commits(p) /\ ~FalsyPw(req[p].password)) =>
         \A r \in SelectByEmail(req[p].email) : \A r2 \in After(r) :
           IF Trim(req[p].password) # <<>>
           THEN PasswordOf(r2) = req[p].password
           ELSE r2.password = r.password

\* C8 as amended: once an editprofile with a password p2 that is not empty
\* after trimming white space has committed, the row of its email holds a
\* hash of p2, and a signin for that row answers 200 exactly for the
\* password the hash was made from: 200 for p2, 401 for the former
\* password p1 # p2.  An editprofile whose password is white space only
\* keeps the stored hash, as one without a password does.
C8_NewPasswordReplacesOld == [][C8Step]_vars

\* C8 witness: after an editprofile stored a new password for a row made
\* by a signup, a signin with the new password has just succeeded.
C8_Witness ==
  /\ Replied("signin") /\ Res.status = 200
  /\ Sent.password \in {b.password : b \in EditBodies}

\* C8 witness of the other half: a signin with the former password has
\* just been refused for a row that holds the new one.
C8_WitnessOldRefused ==
  /\ Replied("signin") /\ Res.status = 401
  /\ Sent.password \in {b.password : b \in SignupBodies}
  /\ \E r \in SelectByEmail(Sent.email) :
       PasswordOf(r) \in {b.password : b \in EditBodies}

C9Step ==
  \A p \in Procs :
    /\ (pc[p] = "ep_update" /\ pc'[p] # "ep_update"
          /\ SelectByEmail(req[p].email) = {})
         => /\ users' = users
            /\ pending'[p] = {}
            /\ pc'[p] \in {"ep_rollback", "ep_catch"}
    /\ (pc[p] = "ep_rollback" /\ pc'[p] # "ep_rollback")
         => /\ users' = users
            /\ pending'[p] = {}
            /\ \/ pc'[p] = "ep_catch"
               \/ /\ pc'[p] = "idle"
                  /\ out' = <<[slot |-> p, req |-> req[p],
                               res |-> Json(404, [message |-> "User not found"])]>>

\* C9: an editprofile whose UPDATE finds no row for its email writes
\* nothing: its UPDATE and its ROLLBACK leave every row as it is and create
\* none, and its answer is 404 "User not found" (the internal error when
\* the UPDATE or the ROLLBACK is rejected), with or without a password.
C9_EditUnknownEmail == [][C9Step]_vars

\* C9 witness: an editprofile that supplied a password has just been
\* answered 404 while the store holds a row of another email.
C9_Witness ==
  /\ Replied("editprofile") /\ Res = Json(404, [message |-> "User not found"])
  /\ HasPassword(Sent.password)
  /\ users # {} /\ SelectByEmail(Sent.email) = {}

C10Step ==
  /\ \A r \in users :
       r \notin users' =>
         \/ /\ After(r) = {}
            /\ out' # <<>> /\ out'[1].req.op = "deleteuser"
            /\ out'[1].req.email = r.email /\ out'[1].res.status = 200
         \/ \E p \in Procs :
              /\ Commits(p) /\ req[p].email = r.email
              /\ After(r) =
                   {[id |-> r.id, email |-> r.email, username |-> req[p].username,
                     bio |-> req[p].bio, avatar |-> req[p].avatar,
                     password |-> IF HasPassword(req[p].password)
                                  THEN hashed[p] ELSE r.password]}
  /\ \A p \in Procs :
       /\ \A w \in pending[p] : \A r \in users :
            (r.id = w.id /\ r \notin users') => Commits(p)
       /\ (pc'[p] = "ep_catch" /\ pc[p] # "ep_catch") => users' = users
       /\ (pc[p] = "ep_catch" /\ pc'[p] # "ep_catch") =>
            /\ users' = users
            /\ pending'[p] = {} /\ ~intx'[p]
            /\ out' = <<[slot |-> p, req |-> req[p],
                         res |-> Json(500, [message |-> "Error updating profile"])]>>

\* C10: the rows other requests can read change under an editprofile in
\* one step only, its COMMIT, which replaces username, bio, avatar and,
\* when a password is stored, the hash together; while its transaction
\* holds a written row nobody else changes that row; and when BEGIN, the
\* hashing, the UPDATE or the COMMIT is rejected, nothing is written, the
\* transaction is rolled back and the answer is 500 "Error updating
\* profile".
C10_EditAllOrNothing == [][C10Step]_vars

\* C10 witness: the COMMIT of an editprofile has been rejected after its
\* UPDATE wrote a row version that differs from the committed row.
C10_Witness ==
  \E p \in Procs :
    /\ pc[p] = "ep_catch" /\ pending[p] # {}
    /\ \A w \in pending[p] : w \notin users

\* the /editprofile request of slot p is between its connect and its exit
InFlightEdit(p) ==
  pc[p] \in {"ep_begin", "ep_update", "ep_rollback", "ep_commit", "ep_respond",
             "ep_catch"}

C11Step ==
  \A p \in Procs :
    /\ held'[p] <=> pc'[p] \in {"ep_begin", "ep_update", "ep_rollback",
                                 "ep_commit", "ep_respond", "ep_catch"}
    /\ (~held[p] /\ held'[p]) => (pc[p] = "idle" /\ pc'[p] = "ep_begin")
    /\ (held[p] /\ ~held'[p]) =>
         /\ pc[p] \in {"ep_rollback", "ep_respond", "ep_catch"}
         /\ out' # <<>> /\ out'[1].slot = p /\ out'[1].req.op = "editprofile"
    /\ (InFlightEdit(p) /\ out' # <<>> /\ out'[1].slot = p) =>
         (held[p] /\ ~held'[p])
    /\ (\A q \in Procs : pc'[q] \in {"idle", "su_insert"}) =>
         {q \in Procs : held'[q]} = {}

\* C11: an editprofile request holds a pool client from its connect to the
\* step that sends its response, and that step releases it, on every exit:
\* the 200 after COMMIT, the 404 after ROLLBACK, and the 500 after a
\* rejected BEGIN, hashing, UPDATE, COMMIT or ROLLBACK; a client is never
\* released at another step or by another request; so the clients checked
\* out are those of the editprofile requests in flight, none when there
\* is no such request.
C11_ClientReleasedOnEveryExit == [][C11Step]_vars

\* C11 witness: an editprofile has just answered 404 after its ROLLBACK,
\* and no client is checked out.
C11_Witness ==
  /\ Replied("editprofile") /\ Res.status = 404
  /\ \A p \in Procs : ~held[p] /\ ~InFlightEdit(p)

\* C11 witness of the failure exit: an editprofile whose COMMIT was
\* rejected has just answered 500, and no client is checked out.
C11_WitnessFailure ==
  /\ Replied("editprofile") /\ Res.status = 500
  /\ HasPassword(Sent.password) /\ SelectByEmail(Sent.email) # {}
  /\ \A p \in Procs : ~held[p] /\ ~InFlightEdit(p)

NotFound == Json(404, [message |-> "User not found"])

C12Step ==
  (out' # <<>> /\ out'[1].req.op = "deleteuser") =>
    LET e == out'[1].req.email
        res == out'[1].res
    IN /\ SelectByEmail(e) # {} =>
            /\ res = Json(200, [message |-> DeletedMessage(e)]) \/ Outage(res)
            /\ res.status = 200 =>
                 /\ Cardinality(SelectByEmail(e)) = 1
                 /\ users' = users \ SelectByEmail(e)
                 /\ \A r \in users : r.email # e => r \in users'
       /\ SelectByEmail(e) = {} =>
            /\ res = NotFound \/ Outage(res)
            /\ users' = users
       /\ res.status # 200 => users' = users
       /\ nextId' = nextId /\ pending' = pending

\* C12: a deleteuser(email) answered 200 has removed the one row of that
\* email and no other row, and every other row is as it was; a deleteuser
\* for an email without a row is answered 404 "User not found" (or the
\* internal error when the DELETE is rejected) and leaves the store as it
\* is; a deleteuser changes no row in any other way.
C12_DeleteRemovesExactlyOne == [][C12Step]_vars

\* C12 witness: a deleteuser has just removed the row of its email while
\* the row of the other email stays.
C12_Witness ==
  /\ Replied("deleteuser") /\ Res.status = 200
  /\ SelectByEmail(Sent.email) = {}
  /\ \E r \in users : r.email # Sent.email

\* C12 witness of the other half: a deleteuser for an email without a row
\* has just been answered 404 while the store holds a row.
C12_WitnessNotFound ==
  /\ Replied("deleteuser") /\ Res = NotFound
  /\ users # {}

InvalidCredentials == Json(401, [message |-> "Invalid email or password"])

\* what the last response must be when it answers a request for an email
\* whose row was deleted and not registered again
C13Answers ==
  (out # <<>> /\ Sent.email \in gone /\ ~Outage(Res)) =>
    /\ (Sent.op = "signin" /\ ValidLogin(Sent)) => Res = InvalidCredentials
    /\ (Sent.op = "verify-password" /\ ValidLogin(Sent)) => Res = NotFound

C13Step ==
  /\ C13Answers'
  /\ \A e \in gone' : \A r \in users' : r.email # e
  /\ \A e \in gone :
       e \notin gone' =>
         /\ out' # <<>> /\ out'[1].req.op = "signup"
         /\ out'[1].req.email = e /\ out'[1].res = Registered
  /\ \A p \in Procs :
       /\ (pc[p] = "ep_update" /\ pc'[p] # "ep_update" /\ req[p].email \in gone) =>
            /\ pc'[p] \in {"ep_rollback", "ep_catch"}
            /\ pending'[p] = {} /\ users' = users
       /\ (pc[p] = "ep_rollback" /\ pc'[p] # "ep_rollback") =>
            /\ users' = users
            /\ \/ pc'[p] = "ep_catch"
               \/ out' = <<[slot |-> p, req |-> req[p], res |-> NotFound]>>
       /\ (pc[p] \in {"ep_commit", "ep_rollback"} /\ pending[p] # {}) =>
            req[p].email \notin gone

\* C13: from a deleteuser(email) answered 200 until a signup for that email
\* is answered 200, the email has no row; a well-formed signin for it is
\* answered 401 "Invalid email or password" and a well-formed
\* verify-password 404 "User not found"; an editprofile whose UPDATE runs
\* in that period matches no row, writes nothing and is answered 404 "User
\* not found" after its ROLLBACK; the internal error takes the place of
\* these answers when an awaited call is rejected; and no step of an
\* editprofile gives the email a row again.
C13_DeletedStaysDeleted == [][C13Step]_vars

\* C13 witness: a signin for an email whose row was deleted has just been
\* refused.
C13_Witness ==
  /\ Replied("signin") /\ ValidLogin(Sent) /\ Sent.email \in gone
  /\ Res = InvalidCredentials

\* C13 witness of the editprofile case: an editprofile for an email whose
\* row was deleted has just been answered 404.
C13_WitnessEdit ==
  /\ Replied("editprofile") /\ Sent.email \in gone /\ Res = NotFound

\* C13 witness of the verify-password case
C13_WitnessVerify ==
  /\ Replied("verify-password") /\ Sent.email \in gone /\ Res = NotFound

\* the request bodies of a set that name the first email, or none
LiveBodies(bs) == {b \in bs : b.email \in {"", "e1"}}

\* the steps of the routes, for requests about one email
LiveNext ==
  \/ \E p \in Procs, b \in LiveBodies(SignupBodies) : Signup(p, b)
  \/ \E p \in Procs : SuInsert(p)
  \/ \E p \in Procs, b \in LiveBodies(LoginBodies("signin")) : Signin(p, b)
  \/ \E p \in Procs, b \in LiveBodies(EditBodies) : EditProfile(p, b)
  \/ \E p \in Procs : EpBegin(p)
  \/ \E p \in Procs : EpUpdate(p)
  \/ \E p \in Procs : EpRollback(p)
  \/ \E p \in Procs : EpCommit(p)
  \/ \E p \in Procs : EpRespond(p)
  \/ \E p \in Procs : EpCatch(p)
  \/ \E p \in Procs : DeleteUser(p, "e1")
  \/ \E p \in Procs : ListUsers(p)
  \/ \E p \in Procs, b \in LiveBodies(LoginBodies("verify-password")) : VerifyPassword(p, b)

\* every awaited call of a request in flight settles: it resolves or rejects
FairSpec ==
  /\ Init /\ [][LiveNext]_vars
  /\ \A p \in Procs :
       /\ WF_vars(SuInsert(p)) /\ WF_vars(EpBegin(p)) /\ WF_vars(EpUpdate(p))
       /\ WF_vars(EpRollback(p)) /\ WF_vars(EpCommit(p)) /\ WF_vars(EpRespond(p))
       /\ WF_vars(EpCatch(p))


\* a response is one success payload or one error
WellFormedResponse(r) ==
  /\ r.res.status \in {200, 400, 401, 404, 500}
  /\ IF r.req.op = "users" /\ r.res.status = 200
     THEN \A u \in r.res.body : "id" \in DOMAIN u
     ELSE /\ "message" \in DOMAIN r.res.body
          /\ "error" \in DOMAIN r.res.body => r.res.status = 500

C14Step ==
  /\ Len(out') <= 1
  /\ \A i \in DOMAIN out' : WellFormedResponse(out'[i])
  /\ \A p \in Procs :
       /\ (pc[p] # "idle" /\ pc'[p] = "idle") =>
            /\ out' # <<>> /\ out'[1].slot = p /\ out'[1].req = req[p]
       /\ (pc[p] # "idle" /\ pc'[p] # "idle") =>
            /\ out' = <<>> \/ out'[1].slot # p
            /\ req'[p] = req[p]
       /\ (pc[p] = "idle" /\ pc'[p] # "idle") =>
            /\ out' = <<>> /\ req'[p] # NoReq
       /\ (out' # <<>> /\ out'[1].slot = p) =>
            /\ pc'[p] = "idle" /\ req'[p] = NoReq
            /\ pc[p] = "idle" => req[p] = NoReq
       /\ pc'[p] = "idle" <=> req'[p] = NoReq
       /\ pending'[p] # {} => pc'[p] \in {"ep_commit", "ep_catch"}

C14Live == \A p \in Procs : (pc[p] # "idle") ~> (pc[p] = "idle")

\* C14: every request is answered exactly once.  A request answered in the
\* step it arrives in leaves no handler behind; a request that suspends at
\* an await sends nothing until the one step that sends its response, after
\* which its handler has returned and sends nothing more, on the paths of
\* /editprofile where ROLLBACK or COMMIT is rejected after the UPDATE and
\* on the paths where a store round trip is rejected as well; every
\* response is one success payload or one error; a transaction that holds
\* a row lock is at a step that waits for no lock; and when every awaited
\* call settles, every request in flight is answered.
C14_ExactlyOneResponse == [][C14Step]_vars /\ C14Live

\* C14 witness: an editprofile for a row of the store, rejected after its
\* transaction began, has just been answered with the one 500, and no
\* request is in flight.
C14_Witness ==
  /\ Replied("editprofile") /\ Res = Json(500, [message |-> "Error updating profile"])
  /\ SelectByEmail(Sent.email) # {}
  /\ \A q \in Procs : pc[q] = "idle" /\ req[q] = NoReq /\ pending[q] = {}

\* C15: when an awaited call of a handler is rejected, the error response
\* carries a fixed message only and nothing of the text of the error that
\* was thrown.
C15_NoDiagnosticsInResponses ==
  (out # <<>> /\ Res.status = 500) => DOMAIN Res.body = {"message"}

\* C16: the response of a successful signup carries the created user: the
\* id the store assigned, and the username, email, bio and avatar of the
\* row the signup inserted, without the password hash.
C16_SignupReturnsIdentity ==
  (Replied("signup") /\ Res.status = 200) =>
    /\ "user" \in DOMAIN Res.body
    /\ \E r \in SelectByEmail(Sent.email) : Res.body.user = Returning(r)

C16Step ==
  \A p \in Procs :
    (StepOf(p, "signup") /\ out' # <<>> /\ out'[1].res.status = 200) =>
      /\ users \subseteq users' /\ Cardinality(users' \ users) = 1
      /\ \A r \in users' \ users :
           /\ r = NewRow(nextId, req[p], hashed[p])
           /\ r.id \notin {r2.id : r2 \in users}
           /\ Compare(req[p].password, r.password)
      /\ nextId' = nextId + 1 /\ pending' = pending

\* the side effect of a successful signup: its INSERT adds one row, made
\* of the request's fields, the hash of its password and the next id of the
\* sequence, and changes nothing else of the store.
C16_OneDurableInsert == [][C16Step]_vars

\* C17: the user of the 200 of an editprofile is the row its own UPDATE
\* returned: the email, username, bio and avatar are those the request
\* supplied and the id is the one of the row it updated, with no password,
\* whatever another editprofile or a deleteuser for the same email has
\* committed between its COMMIT and its response; while the request is
\* between its UPDATE and its response the row it was returned stays as
\* the UPDATE returned it.
C17_EditReturnsOwnUpdate ==
  /\ (Replied("editprofile") /\ Res.status = 200) =>
       /\ DOMAIN Res.body = {"message", "user"}
       /\ DOMAIN Res.body.user = {"id", "email", "username", "bio", "avatar"}
       /\ Res.body.user.email = Sent.email
       /\ Res.body.user.username = Sent.username
       /\ Res.body.user.bio = Sent.bio
       /\ Res.body.user.avatar = Sent.avatar
  /\ \A p \in Procs :
       pc[p] \in {"ep_commit", "ep_respond"} =>
         /\ Cardinality(rows[p]) = 1
         /\ \A u \in rows[p] :
              /\ u.email = req[p].email /\ u.username = req[p].username
              /\ u.bio = req[p].bio /\ u.avatar = req[p].avatar
         /\ pc[p] = "ep_commit" => rows[p] = {Returning(w) : w \in pending[p]}

\* C17 witness: an editprofile has just returned the values it supplied
\* while the row of its email holds the values another editprofile
\* committed after it.
C17_Witness ==
  /\ Replied("editprofile") /\ Res.status = 200
  /\ \E r \in SelectByEmail(Sent.email) :
       r.id = Res.body.user.id /\ r.username # Res.body.user.username

\* C17 witness of the deleteuser case: an editprofile has just returned the
\* row it updated after a deleteuser removed that row.
C17_WitnessDeleted ==
  /\ Replied("editprofile") /\ Res.status = 200
  /\ Sent.email \in gone /\ SelectByEmail(Sent.email) = {}

WrongPassword == Json(401, [message |-> "Wrong password"])
PasswordVerified == Json(200, [message |-> "Password verified"])

C18Step ==
  (out' # <<>> /\ out'[1].req.op = "verify-password") =>
    LET b == out'[1].req
        res == out'[1].res
    IN /\ users' = users /\ nextId' = nextId /\ pending' = pending
       /\ (ValidLogin(b) /\ ~Outage(res)) =>
            /\ SelectByEmail(b.email) = {} => res = NotFound
            /\ \A r \in SelectByEmail(b.email) :
                 IF PasswordOf(r) = b.password
                 THEN res = PasswordVerified
                 ELSE res = WrongPassword
            /\ res = NotFound <=> SelectByEmail(b.email) = {}
            /\ res \in {NotFound, WrongPassword, PasswordVerified}

\* C18: a verify-password with an email and a password is answered 404
\* "User not found" when the email has no row, 401 "Wrong password" when
\* the row's hash was not made from the password, and 200 "Password
\* verified", a message without user data, when it was (or the internal
\* error when an awaited call is rejected); the three answers differ from
\* one another, so a missing account is told apart from a wrong password;
\* and the step changes nothing of the store.
C18_VerifyPasswordOutcomes == [][C18Step]_vars

\* C18 witness: a verify-password with a wrong password for an email that
\* has a row has just been answered 401 "Wrong password".
C18_Witness ==
  /\ Replied("verify-password") /\ Res = WrongPassword
  /\ \E r \in SelectByEmail(Sent.email) : PasswordOf(r) # Sent.password

\* C18 witnesses of the other two answers
C18_WitnessNotFound ==
  /\ Replied("verify-password") /\ Res = NotFound
  /\ SelectByEmail(Sent.email) = {} /\ users # {}

C18_WitnessVerified ==
  /\ Replied("verify-password") /\ Res = PasswordVerified
  /\ \E r \in SelectByEmail(Sent.email) : PasswordOf(r) = Sent.password

\* every column of row r holds a value that is not empty
Populated(r) ==
  /\ r.id \in 1 .. MaxId
  /\ r.username # "" /\ r.email # "" /\ r.bio # "" /\ r.avatar # ""
  /\ r.password # NoHash /\ Len(r.password) = 3 /\ r.password[1] = "$2b$10$"

\* the body of a well-formed /editprofile request
ValidEdit(b) ==
  ~(Falsy(b.email) \/ Falsy(b.username) \/ Falsy(b.bio) \/ Falsy(b.avatar))

\* C19: every row of the store, and every row version a transaction has
\* written, has a username, an email, a password hash, a bio and an avatar
\* that are not empty; a signup with a missing or empty field is answered
\* 400 "Please fill all fields" and an editprofile with a missing or empty
\* email, username, bio or avatar 400 "Missing required fields", in the
\* step they arrive in, so that only well-formed requests of these routes
\* ever reach a store statement.
C19_RowsFullyPopulated ==
  /\ \A r \in users \cup UNION {pending[p] : p \in Procs} : Populated(r)
  /\ (Replied("signup") /\ ~ValidSignup(Sent)) =>
       Res = Json(400, [message |-> "Please fill all fields"])
  /\ (Replied("editprofile") /\ ~ValidEdit(Sent)) =>
       Res = Json(400, [message |-> "Missing required fields"])
  /\ \A p \in Procs :
       /\ pc[p] = "su_insert" => (ValidSignup(req[p]) /\ hashed[p] # NoHash)
       /\ InFlightEdit(p) => ValidEdit(req[p])
       /\ (pc[p] = "ep_update" /\ HasPassword(req[p].password)) => hashed[p] # NoHash

\* C19 witness: an editprofile that left a field out for an email that has
\* a row has just been refused, and the row is as populated as before.
C19_Witness ==
  /\ Replied("editprofile") /\ ~ValidEdit(Sent)
  /\ Res = Json(400, [message |-> "Missing required fields"])
  /\ \E r \in SelectByEmail(Sent.email) : Populated(r)

\* C19 witness of the signup case: a signup that left a field out has just
\* been refused while the store holds two rows.
C19_WitnessSignup ==
  /\ Replied("signup") /\ ~ValidSignup(Sent)
  /\ Res = Json(400, [message |-> "Please fill all fields"])
  /\ Cardinality(users) = 2

\* the ids and emails of the rows of a relation
Keys(rs) == {<<r.id, r.email>> : r \in rs}

C20Step ==
  /\ \A r1, r2 \in users' : r1.id = r2.id => r1 = r2
  /\ Keys(users') # Keys(users) =>
       /\ out' # <<>> /\ out'[1].res.status = 200
       /\ \/ /\ out'[1].req.op = "signup"
             /\ users \subseteq users' /\ Cardinality(users' \ users) = 1
             /\ \A r \in users' \ users :
                  /\ r.email = out'[1].req.email
                  /\ r.id \notin {r2.id : r2 \in users}
          \/ /\ out'[1].req.op = "deleteuser"
             /\ users' \subseteq users /\ Cardinality(users \ users') = 1
             /\ \A r \in users \ users' : r.email = out'[1].req.email
  /\ (out' # <<>> /\ out'[1].req.op \in {"signin", "verify-password", "users"}) =>
       users' = users
  /\ \A p \in Procs :
       StepOf(p, "editprofile") =>
         /\ Keys(users') = Keys(users)
         /\ \A r \in users : r.email # BodyOf(p).email => r \in users'
         /\ \A r \in users : \A r2 \in After(r) :
              r2 # r =>
                /\ Commits(p)
                /\ r2 = [r EXCEPT !.username = r2.username, !.bio = r2.bio,
                                  !.avatar = r2.avatar, !.password = r2.password]

\* C20: the set of rows, taken by id and email, changes only in the step of
\* a signup answered 200, which adds one row with an id no row has, and in
\* the step of a deleteuser answered 200, which removes one row; ids stay
\* distinct; signin, verify-password and users leave the store as it is;
\* and a step of an editprofile adds no row, removes none, leaves the rows
\* of the other emails as they are and changes at most the username, bio,
\* avatar and password hash of the row of its email, never its id or email.
C20_RowSetChangedBySignupAndDelete == [][C20Step]_vars

\* C20 witness: a signup has just added a second row, with an id of its
\* own, to a store that held a row.
C20_Witness ==
  /\ Replied("signup") /\ Res = Registered
  /\ Cardinality(users) = 2 /\ Cardinality({r.id : r \in users}) = 2
  /\ \E r \in SelectByEmail(Sent.email) : r.id = nextId - 1

====
